---- MODULE Spec2Model ----
(***************************************************************************)
(* Daily status tracker of the "malhas" catalog: scripts/update_status.py  *)
(* (update-payload path) and preencher_malhas.py (interactive path and     *)
(* WhatsApp report).                                                       *)
(*                                                                         *)
(* Representation.  A Python str that is normalised, trimmed or compared   *)
(* with < is a sequence of Unicode code points (names, ids, notes); a str  *)
(* that is only tested for equality or emptiness is a TLA+ string          *)
(* (categories, status codes, ultimo_job, termino_real, updatedAt).  A     *)
(* JSON object is a record holding every key of the schema; a key that is  *)
(* absent or null holds None (code-point strings) or NoneVal (the others). *)
(* Dates are ISO dates written as the number YYYYMMDD, whose numeric order *)
(* is the lexicographic order of the zero-padded ISO strings.              *)
(***************************************************************************)
EXTENDS Integers, Sequences, FiniteSets, TLC

VARIABLES
    pc,               \* position of the run in main()
    path,             \* which program runs: "update" | "interactive" | "norm"
    fs,               \* the files: store, and the two temporary paths
    updateFile,       \* the update payload file named by sys.argv[1]
    store0,           \* the store file as it was when the run started
    data,             \* main(): data, the store loaded in memory
    dia,              \* main(): day / dia, the target date
    catalogo_sorted,  \* main(): catalogo_sorted
    idx,              \* main(): position of the for loop over catalogo_sorted
    answer,           \* what was typed at the prompts of the last operation
    report,           \* main(): rel, the outcome of build_whatsapp_report
    raw,              \* a raw name given to the normaliser
    once,             \* norm(raw) and normalize_name(raw)
    twice             \* norm(norm(raw)) and normalize_name(normalize_name(raw))

vars == <<pc, path, fs, updateFile, store0, data, dia, catalogo_sorted, idx,
          answer, report, raw, once, twice>>

(***************************************************************************)
(* Python values                                                           *)
(***************************************************************************)

\* None, or an absent key, where a code-point string is expected: one code
\* point past the last Unicode code point, so it is no string.
None == <<1114112>>

\* None, or an absent key, where a string compared only for equality is expected.
NoneVal == "<None>"

\* s or "" for a code-point string
OrEmpty(s) == IF s = None THEN <<>> ELSE s

\* str.isspace of one character: the characters str.strip() and str.split()
\* take for whitespace
WhiteSpace ==
    {9, 10, 11, 12, 13, 28, 29, 30, 31, 32, 133, 160, 5760, 8192, 8193, 8194,
     8195, 8196, 8197, 8198, 8199, 8200, 8201, 8202, 8232, 8233, 8239, 8287,
     12288}

IsSpace(c) == c \in WhiteSpace

\* str.upper of one character, for the characters a-z; the others used here
\* (digits, A-Z, space, tab, HYPHEN-MINUS, EN DASH, underscore) map to themselves.
UpperChar(c) == IF c \in 97..122 THEN c - 32 ELSE c

Upper(s) == [i \in 1..Len(s) |-> UpperChar(s[i])]

RECURSIVE LStrip(_)
LStrip(s) ==
    IF s = <<>> THEN <<>>
    ELSE IF IsSpace(Head(s)) THEN LStrip(Tail(s))
    ELSE s

RECURSIVE RStrip(_)
RStrip(s) ==
    IF s = <<>> THEN <<>>
    ELSE IF IsSpace(s[Len(s)]) THEN RStrip(SubSeq(s, 1, Len(s) - 1))
    ELSE s

\* str.strip()
Strip(s) == RStrip(LStrip(s))

\* length of the leading run of non-whitespace characters
RECURSIVE WordLen(_)
WordLen(s) ==
    IF s = <<>> \/ IsSpace(Head(s)) THEN 0
    ELSE 1 + WordLen(Tail(s))

\* str.split(): the maximal runs of non-whitespace characters
RECURSIVE Split(_)
Split(s) ==
    IF s = <<>> THEN <<>>
    ELSE IF IsSpace(Head(s)) THEN Split(Tail(s))
    ELSE LET n == WordLen(s)
         IN  <<SubSeq(s, 1, n)>> \o Split(SubSeq(s, n + 1, Len(s)))

\* " ".join(words)
RECURSIVE JoinSpace(_)
JoinSpace(ws) ==
    IF ws = <<>> THEN <<>>
    ELSE IF Len(ws) = 1 THEN ws[1]
    ELSE ws[1] \o <<32>> \o JoinSpace(Tail(ws))

\* str.replace(old, new): every non-overlapping occurrence, left to right
RECURSIVE Replace(_, _, _)
Replace(s, old, new) ==
    IF Len(s) < Len(old) THEN s
    ELSE IF SubSeq(s, 1, Len(old)) = old
         THEN new \o Replace(SubSeq(s, Len(old) + 1, Len(s)), old, new)
    ELSE <<Head(s)>> \o Replace(Tail(s), old, new)

\* a < b for two str: lexicographic by code point
RECURSIVE StrLess(_, _)
StrLess(a, b) ==
    IF b = <<>> THEN FALSE
    ELSE IF a = <<>> THEN TRUE
    ELSE IF Head(a) # Head(b) THEN Head(a) < Head(b)
    ELSE StrLess(Tail(a), Tail(b))

\* list.index(x), or 0 when x is not in the list (Python raises ValueError);
\* positions count from 1 here and from 0 in Python
RECURSIVE IndexOf(_, _)
IndexOf(lst, x) ==
    IF lst = <<>> THEN 0
    ELSE IF Head(lst) = x THEN 1
    ELSE LET r == IndexOf(Tail(lst), x)
         IN  IF r = 0 THEN 0 ELSE r + 1

Range(f) == {f[i] : i \in DOMAIN f}

(***************************************************************************)
(* Static configuration                                                    *)
(***************************************************************************)

ORDEM_CATEGORIAS ==
    <<"Rotativos", "Parcelados", "Modelos", "Gestão PJ e Alto Risco", "Semanal">>

ORDEM_MALHAS ==
    ("Rotativos" :> <<
        <<79, 82, 73, 71, 69, 78, 83>>,  \* ORIGENS
        <<65, 68, 77, 73, 83, 83, 65, 79>>,  \* ADMISSAO
        <<84, 69, 84, 79, 32, 86, 50>>,  \* TETO V2
        <<67, 77, 65>>,  \* CMA
        <<71, 69, 83, 84, 65, 79>>,  \* GESTAO
        <<67, 72, 69, 81, 85, 69>>,  \* CHEQUE
        <<67, 79, 78, 67, 69, 83, 83, 65, 79, 32, 67, 65, 82, 84, 65, 79>>,  \* CONCESSAO CARTAO
        <<67, 79, 78, 67, 69, 83, 83, 65, 79, 32, 67, 72, 69, 81, 85, 69>>,  \* CONCESSAO CHEQUE
        <<83, 85, 80, 69, 82, 32, 67, 82, 69, 68, 73, 84, 79>>,  \* SUPER CREDITO
        <<82, 69, 78, 79, 86, 65, 67, 65, 79, 32, 76, 73, 77, 73, 84, 69, 83, 32, 83, 69, 77, 65, 78, 65, 76>>,  \* RENOVACAO LIMITES SEMANAL
        <<79, 86, 69, 82, 76, 73, 77, 73, 84, 32, 67, 76, 79, 85, 68>>,  \* OVERLIMIT CLOUD
        <<65, 84, 85, 65, 76, 73, 90, 65, 67, 65, 79, 32, 79, 86, 69, 82, 76, 73, 77, 73, 84, 32, 79, 78, 76, 73, 78, 69, 32, 77, 70>>,  \* ATUALIZACAO OVERLIMIT ONLINE MF
        <<79, 86, 69, 82, 76, 73, 77, 73, 84, 32, 67, 65, 82, 84, 65, 79>>  \* OVERLIMIT CARTAO
    >>)
    @@ ("Parcelados" :> <<
        <<67, 79, 78, 83, 73, 71, 78, 65, 68, 79>>,  \* CONSIGNADO
        <<67, 79, 78, 83, 79, 82, 67, 73, 79>>,  \* CONSORCIO
        <<67, 80, 32, 73, 78, 86, 69, 83, 84, 73, 68, 79, 82>>,  \* CP INVESTIDOR
        <<77, 73, 67, 82, 79, 67, 82, 69, 68, 73, 84, 79>>,  \* MICROCREDITO
        <<82, 88>>,  \* RX
        <<84, 72, 51, 32, 45, 32, 79, 89>>,  \* TH3 - OY
        <<73, 77, 79, 66, 73, 76, 73, 65, 82, 73, 79>>  \* IMOBILIARIO
    >>)
    @@ ("Modelos" :> <<
        <<66, 85, 76, 75, 76, 79, 65, 68, 32, 80, 70, 32, 82, 79, 84, 65, 84, 73, 86, 79, 83>>,  \* BULKLOAD PF ROTATIVOS
        <<67, 77, 65, 32, 80, 70>>,  \* CMA PF
        <<68, 78, 65>>,  \* DNA
        <<70, 65, 84, 85, 82, 65, 77, 69, 78, 84, 79>>,  \* FATURAMENTO
        <<77, 79, 68, 69, 76, 79, 83, 32, 80, 70, 32, 80, 65, 82, 67, 69, 76, 65, 68, 79, 83>>,  \* MODELOS PF PARCELADOS
        <<77, 79, 68, 69, 76, 79, 83, 32, 80, 70, 32, 82, 79, 84, 65, 84, 73, 86, 79, 83>>,  \* MODELOS PF ROTATIVOS
        <<84, 72, 82>>,  \* THR
        <<82, 69, 78, 68, 65, 83>>  \* RENDAS
    >>)
    @@ ("Gestão PJ e Alto Risco" :> <<
        <<66, 85, 76, 75, 76, 79, 65, 68, 32, 80, 82, 65, 84, 32, 67, 80, 70, 95, 67, 78, 80, 74>>,  \* BULKLOAD PRAT CPF_CNPJ
        <<80, 82, 69, 86, 69, 78, 84, 73, 86, 79, 32, 80, 70>>,  \* PREVENTIVO PF
        <<76, 73, 83, 84, 65, 32, 80, 82, 69, 86, 32, 80, 74, 32, 83, 69, 77, 65, 78, 65, 76>>,  \* LISTA PREV PJ SEMANAL
        <<82, 69, 68, 85, 67, 65, 79, 32, 83, 69, 77, 65, 78, 65, 76>>,  \* REDUCAO SEMANAL
        <<82, 69, 68, 85, 67, 65, 79, 32, 77, 69, 78, 83, 65, 76>>  \* REDUCAO MENSAL
    >>)
    @@ ("Semanal" :> <<
        <<84, 72, 68, 32, 83, 69, 77, 65, 78, 65, 76>>,  \* THD SEMANAL
        <<84, 72, 74, 32, 83, 69, 77, 65, 78, 65, 76>>,  \* THJ SEMANAL
        <<83, 85, 80, 69, 82, 32, 67, 82, 69, 68, 73, 84, 79, 32, 83, 69, 77, 65, 78, 65, 76>>,  \* SUPER CREDITO SEMANAL
        <<79, 86, 69, 82, 76, 73, 77, 73, 84, 32, 67, 72, 69, 81, 85, 69, 32, 83, 69, 77, 65, 78, 65, 76>>,  \* OVERLIMIT CHEQUE SEMANAL
        <<82, 69, 78, 79, 86, 65, 68, 79, 82, 32, 67, 72, 69, 81, 85, 69, 32, 83, 69, 77, 65, 78, 65, 76>>,  \* RENOVADOR CHEQUE SEMANAL
        <<82, 88, 32, 83, 69, 77, 65, 78, 65, 76>>,  \* RX SEMANAL
        <<73, 77, 79, 66, 73, 76, 73, 65, 82, 73, 79, 32, 80, 82, 69, 86, 69, 78, 84, 73, 86, 79, 32, 45, 32, 83, 69, 77, 65, 78, 65, 76>>,  \* IMOBILIARIO PREVENTIVO - SEMANAL
        <<83, 84, 65, 84, 85, 83, 32, 77, 81>>  \* STATUS MQ
    >>)

VALID_STATUS ==
    {"exec", "ok", "contingencia", "abend", "nao_comecou", "aguardando", "sem_exec"}

\* STATUS_MAP in the order of the dict: <<menu key, status key, emoji>>;
\* the entry "0" has (None, None).  An emoji is written as its code point:
\* U+1F7E1 yellow, U+1F7E2 green, U+1F535 blue, U+1F534 red, U+26AA white and
\* U+26AB black circle.
STATUS_MAP ==
    << <<"1", "exec", "U+1F7E1">>,
       <<"2", "ok", "U+1F7E2">>,
       <<"3", "contingencia", "U+1F535">>,
       <<"4", "abend", "U+1F534">>,
       <<"5", "nao_comecou", "U+26AA">>,
       <<"6", "aguardando", "U+26AB">>,
       <<"7", "sem_exec", "U+26AA">>,
       <<"0", NoneVal, NoneVal>> >>

\* the sentinel ranks of cat_order and malha_order
UnknownCatRank == 999
UnknownMalhaRank == 9999

\* the fallback date of the interactive prompt, "2026-01-10"
DefaultDay == 20260110

(***************************************************************************)
(* Name normaliser                                                         *)
(***************************************************************************)

TH3_EnDash == <<84, 72, 51, 32, 8211, 32, 79, 89>>  \* "TH3 – OY" (EN DASH)
TH3_Hyphen == <<84, 72, 51, 32, 45, 32, 79, 89>>  \* "TH3 - OY"

\* the normaliser with the dash repaired before the whitespace is collapsed
norm_ReplaceFirst(s) ==
    LET s1 == Replace(Upper(Strip(OrEmpty(s))), TH3_EnDash, TH3_Hyphen)
    IN  JoinSpace(Split(s1))

\* update_status.norm and preencher_malhas.normalize_name (the same body)
norm(s) ==
    LET s1 == Upper(Strip(OrEmpty(s)))
        s2 == JoinSpace(Split(s1))
    IN  Replace(s2, TH3_EnDash, TH3_Hyphen)

normalize_name(s) == norm(s)

(***************************************************************************)
(* Category/operation orderer                                              *)
(***************************************************************************)

\* the sort key (int, int, str) compared as Python compares tuples
KeyLess(k1, k2) ==
    IF k1[1] # k2[1] THEN k1[1] < k2[1]
    ELSE IF k1[2] # k2[2] THEN k1[2] < k2[2]
    ELSE StrLess(k1[3], k2[3])

\* puts the pair p = <<key, value>> behind every pair whose key is not greater
RECURSIVE InsertByKey(_, _)
InsertByKey(sorted, p) ==
    IF sorted = <<>> THEN <<p>>
    ELSE IF KeyLess(p[1], Head(sorted)[1]) THEN <<p>> \o sorted
    ELSE <<Head(sorted)>> \o InsertByKey(Tail(sorted), p)

RECURSIVE SortPairs(_)
SortPairs(pairs) ==
    IF pairs = <<>> THEN <<>>
    ELSE InsertByKey(SortPairs(SubSeq(pairs, 1, Len(pairs) - 1)), pairs[Len(pairs)])

\* a sort that leaves the list as it is
SortedPairs_Unsorted(pairs) == pairs

\* sorted(list, key=...): stable, ascending; pairs are <<key, value>>
SortedPairs(pairs) == SortPairs(pairs)

Values(pairs) == [i \in 1..Len(pairs) |-> pairs[i][2]]

\* sort_catalogo.cat_order
cat_order(cat) ==
    IF IndexOf(ORDEM_CATEGORIAS, cat) # 0
    THEN IndexOf(ORDEM_CATEGORIAS, cat) - 1
    ELSE UnknownCatRank

\* ORDEM_MALHAS.get(cat, [])
OrdemMalhasGet(cat) ==
    IF cat \in DOMAIN ORDEM_MALHAS THEN ORDEM_MALHAS[cat] ELSE <<>>

\* sort_catalogo.malha_order
malha_order(cat, nome) ==
    LET lst == OrdemMalhasGet(cat)
        n == norm(nome)
    IN  IF IndexOf(lst, n) # 0 THEN IndexOf(lst, n) - 1 ELSE UnknownMalhaRank

\* the key of sort_catalogo's lambda
CatalogKey(c) ==
    <<cat_order(c.categoria), malha_order(c.categoria, c.nome), norm(c.nome)>>

\* sort_catalogo (the same body in both files)
sort_catalogo(catalogo) ==
    Values(SortedPairs([i \in 1..Len(catalogo) |-> <<CatalogKey(catalogo[i]), catalogo[i]>>]))

\* build_catalog_index / index_catalogo, as a lookup: the last entry with the id
HasId(catalogo, id) == \E i \in 1..Len(catalogo) : catalogo[i].id = id

index_catalogo(catalogo, id) ==
    catalogo[CHOOSE i \in 1..Len(catalogo) :
                /\ catalogo[i].id = id
                /\ \A j \in (i + 1)..Len(catalogo) : catalogo[j].id # id]

(***************************************************************************)
(* Store document, files                                                   *)
(***************************************************************************)

MALHAS_JSON == "malhas.json"

FileNames == {"malhas.json", "malhas.tmp", "malhas.json.tmp"}

EmptyDoc == [catalogo_malhas |-> <<>>, dias |-> <<>>]

NoFile == [exists |-> FALSE, complete |-> FALSE, doc |-> EmptyDoc]

\* a file opened for writing whose JSON text is not all written yet
PartialFile == [exists |-> TRUE, complete |-> FALSE, doc |-> EmptyDoc]

CompleteFile(doc) == [exists |-> TRUE, complete |-> TRUE, doc |-> doc]

\* a temporary path that is the store's own path: the document is written in place
with_suffix_tmp_InPlace(p) == p

\* update_status.save_json: tmp = path.with_suffix(".tmp")
with_suffix_tmp(p) == IF p = "malhas.json" THEN "malhas.tmp" ELSE p

\* preencher_malhas.save_json: tmp = path + ".tmp"
plus_tmp(p) == IF p = "malhas.json" THEN "malhas.json.tmp" ELSE p

TmpOf(p) == IF path = "update" THEN with_suffix_tmp(p) ELSE plus_tmp(p)

\* the clock: datetime.now().isoformat(timespec="seconds")
Now == "now"

DefaultRecord(id) ==
    [id |-> id, status |-> "sem_exec", ultimo_job |-> "-", termino_real |-> "-",
     fim_de_jogo |-> FALSE, nota |-> <<>>]

\* ensure_day (the same body in both files)
ensure_day(d, day) ==
    IF day \in DOMAIN d.dias THEN d
    ELSE [d EXCEPT !.dias = (day :> [updatedAt |-> "", itens |-> <<>>]) @@ d.dias]

(***************************************************************************)
(* Day reconciler, update-payload path                                     *)
(***************************************************************************)

\* bool(x) of a JSON value
PyBool(v) == v \notin {NoneVal, "false", ""}

\* x or "-"
OrDash(v) == IF v \in {NoneVal, ""} THEN "-" ELSE v

\* the dict stored in incoming[nome] for one item of the payload
Fill(it) ==
    [status |-> IF it.status \in VALID_STATUS THEN it.status ELSE "sem_exec",
     ultimo_job |-> OrDash(it.ultimo_job),
     termino_real |-> OrDash(it.termino_real),
     fim_de_jogo |-> PyBool(it.fim_de_jogo),
     nota |-> Strip(OrEmpty(it.nota))]

\* the fields of a record when no item of the payload fills it
NoFill ==
    [status |-> "sem_exec", ultimo_job |-> "-", termino_real |-> "-",
     fim_de_jogo |-> FALSE, nota |-> <<>>]

\* the items that write incoming[nome]: those of that normalised name, when
\* it is not empty (an item whose normalised name is empty is skipped)
Writers(raw_itens, nome) ==
    {i \in 1..Len(raw_itens) : norm(raw_itens[i].nome) = nome /\ nome # <<>>}

MaxOf(S) == CHOOSE x \in S : \A y \in S : y <= x
MinOf(S) == CHOOSE x \in S : \A y \in S : x <= y

\* a lookup that sees only the first item of the payload
incoming_get_OnlyFirst(raw_itens, nome) ==
    LET w == Writers(raw_itens, nome) \cap {1}
    IN  IF w = {} THEN [found |-> FALSE, fill |-> NoFill]
        ELSE [found |-> TRUE, fill |-> Fill(raw_itens[1])]

\* a lookup that keeps the item's status as given
incoming_get_RawStatus(raw_itens, nome) ==
    LET w == Writers(raw_itens, nome)
    IN  IF w = {} THEN [found |-> FALSE, fill |-> NoFill]
        ELSE [found |-> TRUE,
              fill |-> [Fill(raw_itens[MaxOf(w)]) EXCEPT !.status = raw_itens[MaxOf(w)].status]]

\* incoming.get(nome) after the loop that fills incoming: each item overwrites
\* the entry of its name, so the last one stays
incoming_get(raw_itens, nome) ==
    LET w == Writers(raw_itens, nome)
    IN  IF w = {} THEN [found |-> FALSE, fill |-> NoFill]
        ELSE [found |-> TRUE, fill |-> Fill(raw_itens[MaxOf(w)])]

\* the record appended to itens_final for the catalog entry c
FinalRecord(c, raw_itens) ==
    LET got == incoming_get(raw_itens, norm(c.nome))
    IN  IF got.found
        THEN [id |-> c.id, status |-> got.fill.status,
              ultimo_job |-> got.fill.ultimo_job,
              termino_real |-> got.fill.termino_real,
              fim_de_jogo |-> got.fill.fim_de_jogo, nota |-> got.fill.nota]
        ELSE DefaultRecord(c.id)

\* a reconciliation that writes a record only for the operations of the payload
itens_final_OnlyMatched(catalogo, raw_itens) ==
    LET cs == sort_catalogo(catalogo)
    IN  SelectSeq([i \in 1..Len(cs) |-> FinalRecord(cs[i], raw_itens)],
                  LAMBDA r : r.status # "sem_exec")

\* itens_final: one record per entry of the sorted catalog
itens_final(catalogo, raw_itens) ==
    LET cs == sort_catalogo(catalogo)
    IN  [i \in 1..Len(cs) |-> FinalRecord(cs[i], raw_itens)]

\* a reconciliation that drops the other days of the store
reconcile_DropsOtherDays(d, payload) ==
    LET day == payload.date[1]
    IN  [d EXCEPT !.dias = (day :> [updatedAt |-> Now,
                                    itens |-> itens_final(d.catalogo_malhas, payload.itens)])]

\* main(), from ensure_day to dia_obj["itens"] = itens_final
reconcile(d, payload) ==
    LET day == payload.date[1]
        d1 == ensure_day(d, day)
        updatedAt == IF payload.updatedAt \in {NoneVal, ""} THEN Now ELSE payload.updatedAt
    IN  [d1 EXCEPT !.dias[day] =
            [updatedAt |-> updatedAt,
             itens |-> itens_final(d.catalogo_malhas, payload.itens)]]

(***************************************************************************)
(* Day reconciler, interactive path                                        *)
(***************************************************************************)

\* itens_map(dia_obj).get(id), as the position of the record: the last
\* record of that id (each record overwrites m[id]), 0 when there is none.
\* The map is built once before the loop and a record is appended only for
\* an id the map lacks, so looking the id up in the current list is the same.
ItensIndex(itens, id) ==
    LET s == {i \in 1..Len(itens) : itens[i].id = id}
    IN  IF s = {} THEN 0 ELSE MaxOf(s)

\* STATUS_MAP[s][0] for a menu key s
StatusOfChoice(s) ==
    LET i == CHOOSE i \in 1..Len(STATUS_MAP) : STATUS_MAP[i][1] = s
    IN  STATUS_MAP[i][2]

\* prompt_status, for the answer s that ends its loop (a key of STATUS_MAP)
prompt_status(current_key, s) ==
    IF StatusOfChoice(s) = NoneVal THEN current_key ELSE StatusOfChoice(s)

\* prompt_yesno, for the answer s (stripped, lower case) that ends its loop
prompt_yesno(default, s) ==
    IF s = "" THEN default
    ELSE s \in {"s", "sim"}

\* a loop body that rebuilds the record from the defaults
loop_body_Rebuilds(d, day, c, ans) ==
    LET itens0 == d.dias[day].itens
        itens1 == IF ItensIndex(itens0, c.id) # 0 THEN itens0
                  ELSE Append(itens0, DefaultRecord(c.id))
        k == ItensIndex(itens1, c.id)
        it2 == [DefaultRecord(c.id) EXCEPT
                   !.status = prompt_status(itens1[k].status, ans.status),
                   !.fim_de_jogo = prompt_yesno(itens1[k].fim_de_jogo, ans.yesno),
                   !.nota = Strip(ans.obs)]
    IN  [d EXCEPT !.dias[day].itens = [itens1 EXCEPT ![k] = it2]]

\* main(): the body of the loop over catalogo_sorted, for the entry c and the
\* three answers ans = [status, yesno, obs] given at its prompts
loop_body(d, day, c, ans) ==
    LET itens0 == d.dias[day].itens
        itens1 == IF ItensIndex(itens0, c.id) # 0 THEN itens0
                  ELSE Append(itens0, DefaultRecord(c.id))
        k == ItensIndex(itens1, c.id)
        it == itens1[k]
        obs == Strip(ans.obs)
        it2 == [it EXCEPT
                   !.status = prompt_status(it.status, ans.status),
                   !.fim_de_jogo = prompt_yesno(it.fim_de_jogo, ans.yesno),
                   !.nota = IF obs # <<>> THEN obs ELSE @]
    IN  [d EXCEPT !.dias[day].itens = [itens1 EXCEPT ![k] = it2]]

\* the key of the lambda that sorts dia_obj["itens"] after the loop
InlineKey(catalogo, it) ==
    LET known == HasId(catalogo, it.id)
        c == index_catalogo(catalogo, it.id)
    IN  << IF known /\ IndexOf(ORDEM_CATEGORIAS, c.categoria) # 0
           THEN IndexOf(ORDEM_CATEGORIAS, c.categoria) - 1
           ELSE UnknownCatRank,
           IF known /\ IndexOf(OrdemMalhasGet(c.categoria), normalize_name(c.nome)) # 0
           THEN IndexOf(OrdemMalhasGet(c.categoria), normalize_name(c.nome)) - 1
           ELSE UnknownMalhaRank,
           IF known THEN normalize_name(c.nome) ELSE it.id >>

\* main(): dia_obj["itens"] = sorted(dia_obj["itens"], key=...)
sort_day(d, day) ==
    LET itens == d.dias[day].itens
    IN  [d EXCEPT !.dias[day].itens =
            Values(SortedPairs([i \in 1..Len(itens) |->
                       <<InlineKey(d.catalogo_malhas, itens[i]), itens[i]>>]))]

\* main(): ensure_day and the updatedAt stamp, after the date prompt
open_day(d, day) ==
    [ensure_day(d, day) EXCEPT !.dias[day].updatedAt = Now]

\* prompt_date's default: the last existing date, or the fixed fallback
default_day(d) ==
    IF DOMAIN d.dias = {} THEN DefaultDay ELSE MaxOf(DOMAIN d.dias)

(***************************************************************************)
(* Report renderer                                                         *)
(***************************************************************************)

\* br_date: "YYYY-MM-DD" to "DD/MM/YYYY", as <<DD, MM, YYYY>>
br_date(ymd) == <<ymd % 100, (ymd \div 100) % 100, ymd \div 10000>>

Line(kind, text, emoji, nome, obs, date) ==
    [kind |-> kind, text |-> text, emoji |-> emoji, nome |-> nome, obs |-> obs,
     date |-> date]

TextLine(text) == Line("text", text, "", <<>>, <<>>, <<>>)

\* the emoji of a status: the first entry of STATUS_MAP with that status key,
\* the white circle when there is none or its emoji is None
EmojiOf(st) ==
    LET hits == {i \in 1..Len(STATUS_MAP) : STATUS_MAP[i][2] = st}
        e == IF hits = {} THEN NoneVal ELSE STATUS_MAP[MinOf(hits)][3]
    IN  IF e = NoneVal THEN "U+26AA" ELSE e

\* the text of one row: emoji, name and, when not empty, the note in parentheses
RowLine(row) == Line("item", "", EmojiOf(row.st), row.nome, row.obs, <<>>)

\* groups[cat] after the loop over the rows
GroupOf(rows, cat) ==
    LET mine == SelectSeq(rows, LAMBDA r : r.cat = cat)
    IN  [i \in 1..Len(mine) |-> RowLine(mine[i])]

RECURSIVE Sections(_, _)
Sections(rows, cats) ==
    IF cats = <<>> THEN <<>>
    ELSE LET g == GroupOf(rows, Head(cats))
         IN  <<Line("section", Head(cats), "", <<>>, <<>>, <<>>)>>
             \o (IF g # <<>> THEN g ELSE <<TextLine("- (sem itens)")>>)
             \o <<TextLine("")>>
             \o Sections(rows, Tail(cats))

\* build_whatsapp_report: the elements of out, which "\n".join(out) joins (a
\* "section" line is f"{cat}:\n", an "odate" line f"Odate: {br_date(dia)}\n",
\* an "item" line f"- {line}"), or the KeyError raised by
\* groups[cat] for a row whose category is not in ORDEM_CATEGORIAS
build_whatsapp_report(day, rows) ==
    IF \E i \in 1..Len(rows) : rows[i].cat \notin Range(ORDEM_CATEGORIAS)
    THEN [error |-> "KeyError", lines |-> <<>>]
    ELSE [error |-> "",
          lines |-> <<TextLine("Boa noite.\n"), TextLine("Acompanhamento Malhas\n"),
                      Line("odate", "Odate", "", <<>>, <<>>, br_date(day))>>
                    \o Sections(rows, ORDEM_CATEGORIAS)
                    \o <<TextLine("Legenda:"), TextLine("U+1F7E1 Em execução | U+1F7E2 Finalizado | U+1F535 Contingência | U+1F534 Abend | U+26AA Não começou/Sem execução | U+26AB Aguardando condição"),
                         TextLine("U+26AA/U+1F535 em 'Fim de jogo' = não validado / validado")>>]

\* main(): report_rows, one row per record of the sorted day
report_rows(d, day) ==
    LET itens == d.dias[day].itens
        cat == d.catalogo_malhas
    IN  [i \in 1..Len(itens) |->
            [cat |-> IF HasId(cat, itens[i].id)
                     THEN index_catalogo(cat, itens[i].id).categoria ELSE "-",
             nome |-> normalize_name(IF HasId(cat, itens[i].id)
                                     THEN index_catalogo(cat, itens[i].id).nome
                                     ELSE itens[i].id),
             st |-> itens[i].status,
             fim |-> itens[i].fim_de_jogo,
             obs |-> Strip(OrEmpty(itens[i].nota))]]

NoReport == [error |-> "", lines |-> <<>>]

(***************************************************************************)
(* Inputs: what the files hold at the start of a run, and what is typed    *)
(***************************************************************************)

\* the longest catalog and the longest list of payload items
MaxCat == 2
MaxItens == 2

\* the catalog entries a store may list, in the order the file lists them
OpPool ==
    << [id |-> <<97>>, nome |-> <<32, 99, 109, 97, 32>>, categoria |-> "Rotativos"],         \* " cma "
       [id |-> <<101>>, nome |-> <<65, 76, 70, 65>>, categoria |-> "Outros"],           \* "ALFA", unknown category
       [id |-> <<98>>, nome |-> <<79, 114, 105, 103, 101, 110, 115>>, categoria |-> "Rotativos"],  \* "Origens"
       [id |-> <<102>>, nome |-> <<32, 32>>, categoria |-> "Parcelados"],               \* "  ", a blank name
       [id |-> <<100>>, nome |-> <<90, 69, 84, 65>>, categoria |-> "Parcelados"],      \* "ZETA", not in ORDEM_MALHAS
       [id |-> <<99>>, nome |-> <<116, 104, 51, 32, 32, 8211, 32, 32, 111, 121>>, categoria |-> "Parcelados"] >>  \* "th3  –  oy"

RECURSIVE SeqOfSet(_)
SeqOfSet(S) ==
    IF S = {} THEN <<>>
    ELSE <<OpPool[MinOf(S)]>> \o SeqOfSet(S \ {MinOf(S)})

\* the catalogs: up to MaxCat entries of the pool, with unique ids
Catalogs ==
    {SeqOfSet(S) : S \in {T \in SUBSET (1..Len(OpPool)) : Cardinality(T) <= MaxCat}}

IdA == <<97>>
IdB == <<98>>
IdZZ == <<122, 122>>  \* "zz", an id of no catalog

Rec(id, st, uj, tr, fim, nota) ==
    [id |-> id, status |-> st, ultimo_job |-> uj, termino_real |-> tr,
     fim_de_jogo |-> fim, nota |-> nota]

Dates == <<20260201, 20260202>>

\* a day with records out of catalog order, one of a status outside the enum
PartialDay ==
    [updatedAt |-> "t0",
     itens |-> << Rec(IdB, "weird", "-", "-", FALSE, <<>>),
                  Rec(IdA, "ok", "J9", "23:10", TRUE, <<32, 110, 32>>) >>]

\* a day with a record of an id outside the catalog and two records of one id
StaleDupDay ==
    [updatedAt |-> "t0",
     itens |-> << Rec(IdZZ, "abend", "J7", "-", FALSE, <<>>),
                  Rec(IdA, "exec", "J1", "-", FALSE, <<>>),
                  Rec(IdA, "ok", "J2", "22:00", TRUE, <<110, 50>>) >>]

OtherDay ==
    [updatedAt |-> "t9", itens |-> << Rec(IdB, "ok", "J5", "21:00", TRUE, <<>>) >>]

DiasPool ==
    { <<>>,
      (Dates[1] :> PartialDay) @@ (Dates[2] :> OtherDay),
      (Dates[1] :> StaleDupDay) }

Stores == {[catalogo_malhas |-> c, dias |-> ds] : c \in Catalogs, ds \in DiasPool}

Item(nome, st, uj, tr, fim, nota) ==
    [nome |-> nome, status |-> st, ultimo_job |-> uj, termino_real |-> tr,
     fim_de_jogo |-> fim, nota |-> nota]

\* the items an update payload may list
ItemPool ==
    { Item(<<32, 99, 109, 97, 32>>, "ok", "J1", NoneVal, "true", <<32, 110, 49, 32>>),   \* " cma "
      Item(<<67, 77, 65>>, NoneVal, "", "10:00", NoneVal, None),               \* "CMA"
      Item(<<84, 72, 51, 32, 8211, 32, 32, 79, 89>>, "bogus", NoneVal, " ", "false", <<120>>),  \* "TH3 –  OY"
      Item(<<>>, "exec", "J4", "09:00", "true", <<121>>) }                       \* ""

ItemSeqs == UNION {[1..n -> ItemPool] : n \in 0..MaxItens}

Payloads ==
    {[date |-> <<Dates[1]>>, updatedAt |-> u, itens |-> its] :
        u \in {"t1", NoneVal}, its \in ItemSeqs}
    \cup {[date |-> <<>>, updatedAt |-> NoneVal, itens |-> <<>>]}

NoPayload == [date |-> <<>>, updatedAt |-> NoneVal, itens |-> <<>>]

\* the answers typed at the three prompts of one operation
Answers ==
    { [status |-> "0", yesno |-> "", obs |-> <<>>],
      [status |-> "0", yesno |-> "", obs |-> <<32>>],       \* " "
      [status |-> "1", yesno |-> "s", obs |-> <<32, 111, 98, 115, 32>>],  \* " obs "
      [status |-> "2", yesno |-> "n", obs |-> <<>>],
      [status |-> "4", yesno |-> "sim", obs |-> <<122>>],    \* "z"
      [status |-> "6", yesno |-> "não", obs |-> <<>>] }

NoAnswer == [status |-> "", yesno |-> "", obs |-> <<>>]

\* the answers typed at the date prompt: nothing, or a valid date
DateAnswers == {<<>>, <<Dates[1]>>}

(***************************************************************************)
(* Initial states                                                          *)
(***************************************************************************)

InitFiles ==
    /\ \E f \in {NoFile} \cup {CompleteFile(s) : s \in Stores} :
          fs = [n \in FileNames |-> IF n = MALHAS_JSON THEN f ELSE NoFile]
    /\ store0 = fs[MALHAS_JSON]
    /\ pc = "start"
    /\ data = EmptyDoc
    /\ dia = 0
    /\ catalogo_sorted = <<>>
    /\ idx = 0
    /\ answer = NoAnswer
    /\ report = NoReport
    /\ raw = <<>>
    /\ once = <<>>
    /\ twice = <<>>

InitUpdate ==
    /\ path = "update"
    /\ updateFile \in {[exists |-> FALSE, payload |-> NoPayload]}
                       \cup {[exists |-> TRUE, payload |-> p] : p \in Payloads}
    /\ InitFiles

InitInteractive ==
    /\ path = "interactive"
    /\ updateFile = [exists |-> FALSE, payload |-> NoPayload]
    /\ InitFiles

Init == InitUpdate \/ InitInteractive

(***************************************************************************)
(* save_json, step by step                                                 *)
(***************************************************************************)

\* open(tmp, "w"): the temporary file exists and is empty
SaveOpen ==
    /\ pc = "save"
    /\ fs' = [fs EXCEPT ![TmpOf(MALHAS_JSON)] = PartialFile]
    /\ pc' = "writing"
    /\ UNCHANGED <<path, updateFile, store0, data, dia, catalogo_sorted, idx,
                   answer, report, raw, once, twice>>

\* json.dump returns and the with block closes the file
SaveDump ==
    /\ pc = "writing"
    /\ fs' = [fs EXCEPT ![TmpOf(MALHAS_JSON)] = CompleteFile(data)]
    /\ pc' = "written"
    /\ UNCHANGED <<path, updateFile, store0, data, dia, catalogo_sorted, idx,
                   answer, report, raw, once, twice>>

\* json.dump raises while the file is written (disk full): the run ends
SaveDumpFails ==
    /\ pc = "writing"
    /\ pc' = "failed"
    /\ UNCHANGED <<path, fs, updateFile, store0, data, dia, catalogo_sorted, idx,
                   answer, report, raw, once, twice>>

\* tmp.replace(path) / os.replace(tmp, path): the atomic rename
SaveReplace ==
    /\ pc = "written"
    /\ LET tmp == TmpOf(MALHAS_JSON)
       IN  fs' = IF tmp = MALHAS_JSON THEN fs
                 ELSE [fs EXCEPT ![MALHAS_JSON] = fs[tmp], ![tmp] = NoFile]
    /\ pc' = "renamed"
    /\ UNCHANGED <<path, updateFile, store0, data, dia, catalogo_sorted, idx,
                   answer, report, raw, once, twice>>

(***************************************************************************)
(* scripts/update_status.py main()                                         *)
(***************************************************************************)

\* from the start to the call of save_json: the update file is looked for,
\* both files are loaded, the date is checked, the day is reconciled
UpdateMain ==
    /\ path = "update"
    /\ pc = "start"
    /\ IF ~updateFile.exists
       THEN pc' = "exit" /\ UNCHANGED <<data, dia>>
       ELSE IF ~fs[MALHAS_JSON].exists
       THEN pc' = "crashed_load" /\ UNCHANGED <<data, dia>>
       ELSE IF updateFile.payload.date = <<>>
       THEN pc' = "exit" /\ data' = fs[MALHAS_JSON].doc /\ UNCHANGED dia
       ELSE /\ pc' = "save"
            /\ dia' = updateFile.payload.date[1]
            /\ data' = reconcile(fs[MALHAS_JSON].doc, updateFile.payload)
    /\ UNCHANGED <<path, fs, updateFile, store0, catalogo_sorted, idx, answer,
                   report, raw, once, twice>>

\* after save_json: the closing message
UpdateDone ==
    /\ path = "update"
    /\ pc = "renamed"
    /\ pc' = "done"
    /\ UNCHANGED <<path, fs, updateFile, store0, data, dia, catalogo_sorted, idx,
                   answer, report, raw, once, twice>>

(***************************************************************************)
(* preencher_malhas.py main()                                              *)
(***************************************************************************)

\* the store is looked for and loaded
InteractiveLoad ==
    /\ path = "interactive"
    /\ pc = "start"
    /\ IF ~fs[MALHAS_JSON].exists
       THEN pc' = "exit" /\ UNCHANGED data
       ELSE pc' = "prompt_date" /\ data' = fs[MALHAS_JSON].doc
    /\ UNCHANGED <<path, fs, updateFile, store0, dia, catalogo_sorted, idx, answer,
                   report, raw, once, twice>>

\* prompt_date returns; the day is opened and the catalog sorted
InteractiveDate ==
    /\ path = "interactive"
    /\ pc = "prompt_date"
    /\ \E ans \in DateAnswers :
          LET day == IF ans = <<>> THEN default_day(data) ELSE ans[1]
          IN  /\ dia' = day
              /\ data' = open_day(data, day)
    /\ catalogo_sorted' = sort_catalogo(data.catalogo_malhas)
    /\ idx' = 1
    /\ pc' = "loop"
    /\ UNCHANGED <<path, fs, updateFile, store0, answer, report, raw, once, twice>>

\* one turn of the loop: the three prompts of one operation are answered
InteractiveOp ==
    /\ path = "interactive"
    /\ pc = "loop"
    /\ idx <= Len(catalogo_sorted)
    /\ \E ans \in Answers :
          /\ data' = loop_body(data, dia, catalogo_sorted[idx], ans)
          /\ answer' = ans
    /\ idx' = idx + 1
    /\ UNCHANGED <<pc, path, fs, updateFile, store0, dia, catalogo_sorted, report,
                   raw, once, twice>>

\* Ctrl-C at a prompt: the run ends
InteractiveInterrupt ==
    /\ path = "interactive"
    /\ pc \in {"prompt_date", "loop"}
    /\ pc = "loop" => idx <= Len(catalogo_sorted)
    /\ pc' = "interrupted"
    /\ UNCHANGED <<path, fs, updateFile, store0, data, dia, catalogo_sorted, idx,
                   answer, report, raw, once, twice>>

\* after the loop: the day is sorted, save_json is called
InteractiveSort ==
    /\ path = "interactive"
    /\ pc = "loop"
    /\ idx > Len(catalogo_sorted)
    /\ data' = sort_day(data, dia)
    /\ pc' = "save"
    /\ UNCHANGED <<path, fs, updateFile, store0, dia, catalogo_sorted, idx, answer,
                   report, raw, once, twice>>

\* after save_json: the report is built from the rows of the sorted day
InteractiveReport ==
    /\ path = "interactive"
    /\ pc = "renamed"
    /\ report' = build_whatsapp_report(dia, report_rows(data, dia))
    /\ pc' = IF report'.error # "" THEN "crashed_report" ELSE "done"
    /\ UNCHANGED <<path, fs, updateFile, store0, data, dia, catalogo_sorted, idx,
                   answer, raw, once, twice>>

Next ==
    \/ UpdateMain
    \/ UpdateDone
    \/ InteractiveLoad
    \/ InteractiveDate
    \/ InteractiveOp
    \/ InteractiveInterrupt
    \/ InteractiveSort
    \/ InteractiveReport
    \/ SaveOpen
    \/ SaveDump
    \/ SaveDumpFails
    \/ SaveReplace

Spec == Init /\ [][Next]_vars

(***************************************************************************)
(* The normaliser applied to raw names                                     *)
(***************************************************************************)

\* the most pieces a raw name is made of
MaxPieces == 5

\* the pieces raw names are made of
Pieces ==
    { <<32>>, <<9>>, <<116, 104, 51>>, <<84, 72, 51>>, <<8211>>, <<111, 121>>, <<79, 89>> }
    \* " ", tab, "th3", "TH3", EN DASH, "oy", "OY"

InitNorm ==
    /\ path = "norm"
    /\ pc = "typing"
    /\ raw = <<>>
    /\ idx = 0
    /\ once = <<>>
    /\ twice = <<>>
    /\ fs = [n \in FileNames |-> NoFile]
    /\ updateFile = [exists |-> FALSE, payload |-> NoPayload]
    /\ store0 = NoFile
    /\ data = EmptyDoc
    /\ dia = 0
    /\ catalogo_sorted = <<>>
    /\ answer = NoAnswer
    /\ report = NoReport

\* one more piece of the raw name
NormType ==
    /\ path = "norm"
    /\ pc = "typing"
    /\ idx < MaxPieces
    /\ \E p \in Pieces : raw' = raw \o p
    /\ idx' = idx + 1
    /\ UNCHANGED <<pc, path, fs, updateFile, store0, data, dia, catalogo_sorted,
                   answer, report, once, twice>>

\* the name is normalised, and the result normalised again
NormApply ==
    /\ path = "norm"
    /\ pc = "typing"
    /\ once' = norm(raw)
    /\ twice' = norm(norm(raw))
    /\ pc' = "normalised"
    /\ UNCHANGED <<path, fs, updateFile, store0, data, dia, catalogo_sorted, idx,
                   answer, report, raw>>

NextNorm == NormType \/ NormApply

SpecNorm == InitNorm /\ [][NextNorm]_vars

(***************************************************************************)
(* Properties                                                              *)
(***************************************************************************)

\* the run has reached the rename that ends save_json
Saved == pc \in {"renamed", "done", "crashed_report"}

\* the day record of the target date in the store file
SavedItens == fs[MALHAS_JSON].doc.dias[dia].itens

\* the catalog of the store read at the start
Catalog0 == store0.doc.catalogo_malhas

PayloadItens == updateFile.payload.itens

\* exactly Len(cat) records, and each catalog id in exactly one of them
OnePerOperation(cat, its) ==
    /\ Len(its) = Len(cat)
    /\ \A i \in 1..Len(cat) :
          Cardinality({k \in 1..Len(its) : its[k].id = cat[i].id}) = 1

\* C1: on the update-payload path the day record written for the payload's
\* date holds exactly N status records for a catalog of N operations, and
\* each catalog id occurs in exactly one of them, whatever the payload lists.
C1_UpdateOnePerOperation ==
    (path = "update" /\ Saved) => OnePerOperation(Catalog0, SavedItens)

\* a saved update of a catalog of two operations, from a payload that names
\* an operation of no catalog entry and leaves a catalog entry out
C1_Witness ==
    /\ path = "update"
    /\ Saved
    /\ Len(Catalog0) >= 2
    /\ \E k \in 1..Len(PayloadItens) :
          \A i \in 1..Len(Catalog0) :
             norm(PayloadItens[k].nome) # norm(Catalog0[i].nome)
    /\ \E i \in 1..Len(Catalog0) :
          \A k \in 1..Len(PayloadItens) :
             norm(PayloadItens[k].nome) # norm(Catalog0[i].nome)

\* C2: after a completed interactive run the saved day record holds exactly
\* one status record per catalog operation and no other record, whatever
\* day record was persisted before.
C2_InteractiveOnePerOperation ==
    (path = "interactive" /\ Saved) =>
        /\ OnePerOperation(Catalog0, SavedItens)
        /\ \A k \in 1..Len(SavedItens) : HasId(Catalog0, SavedItens[k].id)

Perms(n) == {p \in [1..n -> 1..n] : \A i, j \in 1..n : i # j => p[i] # p[j]}

Permuted(its, p) == [i \in 1..Len(its) |-> its[p[i]]]

\* no two items of a non-empty normalised name share that name
DistinctNames(its) ==
    \A i, j \in 1..Len(its) :
       (i < j /\ norm(its[i].nome) # <<>>) => norm(its[i].nome) # norm(its[j].nome)

\* C3 as stated: every permutation of the payload's items gives the same
\* reconciled day record, also when two items normalise to the same name.
C3_AnyPermutationSameDay ==
    (path = "update" /\ Saved) =>
        \A p \in Perms(Len(PayloadItens)) :
           itens_final(Catalog0, Permuted(PayloadItens, p)) = SavedItens

\* C3 as amended: every permutation of the payload's items gives the same
\* reconciled day record (same records, same order) when no two items of a
\* non-empty normalised name normalise to the same name.
C3_PermutationSameDayDistinctNames ==
    (path = "update" /\ Saved /\ DistinctNames(PayloadItens)) =>
        \A p \in Perms(Len(PayloadItens)) :
           itens_final(Catalog0, Permuted(PayloadItens, p)) = SavedItens

\* a saved update whose payload lists two operations of the catalog, of
\* different names, in the reverse of their order in the day record
C3_Witness ==
    /\ path = "update"
    /\ Saved
    /\ DistinctNames(PayloadItens)
    /\ Len(PayloadItens) = 2
    /\ \E r1, r2 \in 1..Len(SavedItens) :
          /\ r1 < r2
          /\ norm(index_catalogo(Catalog0, SavedItens[r1].id).nome) = norm(PayloadItens[2].nome)
          /\ norm(index_catalogo(Catalog0, SavedItens[r2].id).nome) = norm(PayloadItens[1].nome)
          /\ norm(PayloadItens[1].nome) # <<>>
          /\ norm(PayloadItens[2].nome) # <<>>

\* C4: at every step of a run of either path the store file is complete and
\* is the document read at the start or, only once the run has reached the
\* rename that ends save_json, the new document.
C4_StoreFileAtomic ==
    LET f == fs[MALHAS_JSON]
    IN  /\ f.exists => f.complete
        /\ \/ f = store0
           \/ Saved /\ f = CompleteFile(data)

\* a run that failed while the temporary file was written: that file is
\* partial, the memory holds a new document, the store file is the old one
C4_Witness ==
    /\ pc = "failed"
    /\ store0.exists
    /\ fs[TmpOf(MALHAS_JSON)] = PartialFile
    /\ data # store0.doc
    /\ fs[MALHAS_JSON] = store0

\* position of x in lst, one past the end when x is not in it
ClaimRank(lst, x) ==
    IF \E i \in 1..Len(lst) : lst[i] = x
    THEN CHOOSE i \in 1..Len(lst) : lst[i] = x /\ \A j \in 1..(i - 1) : lst[j] # x
    ELSE Len(lst) + 1

ClaimMalhas(cat) == IF cat \in DOMAIN ORDEM_MALHAS THEN ORDEM_MALHAS[cat] ELSE <<>>

\* the key of C5: <<category rank, name rank, normalised name>>
ClaimKey(c) ==
    <<ClaimRank(ORDEM_CATEGORIAS, c.categoria),
      ClaimRank(ClaimMalhas(c.categoria), norm(c.nome)),
      norm(c.nome)>>

\* C5: the day record persisted by either path lists the records of catalog
\* operations in non-decreasing order of the key (category rank with unknown
\* categories last, name rank with unlisted names last, normalised name), so
\* no operation of a category comes after one of a later category; and the
\* interactive path's inline key of a record whose id is in the catalog is
\* sort_catalogo's key of its operation.
C5_SavedDayOrdered ==
    Saved =>
        LET its == SavedItens
            known == {k \in 1..Len(its) : HasId(Catalog0, its[k].id)}
            Op(k) == index_catalogo(Catalog0, its[k].id)
        IN  /\ \A i, j \in known :
                  i < j => ~KeyLess(ClaimKey(Op(j)), ClaimKey(Op(i)))
            /\ \A i, j \in known :
                  i < j => ClaimRank(ORDEM_CATEGORIAS, Op(i).categoria)
                              <= ClaimRank(ORDEM_CATEGORIAS, Op(j).categoria)
            /\ path = "interactive" =>
                  \A k \in known : InlineKey(Catalog0, its[k]) = CatalogKey(Op(k))

\* a saved interactive run in which two operations come in the day record in
\* the reverse of their order in the catalog file
C5_Witness ==
    /\ path = "interactive"
    /\ Saved
    /\ \E i, j \in 1..Len(Catalog0) :
          /\ i < j
          /\ ItensIndex(SavedItens, Catalog0[j].id) < ItensIndex(SavedItens, Catalog0[i].id)

SevenCodes ==
    {"exec", "ok", "contingencia", "abend", "nao_comecou", "aguardando", "sem_exec"}

\* the record C6 describes for a catalog id filled from a payload item
ClaimRecord(id, it) ==
    [id |-> id,
     status |-> IF it.status \in SevenCodes THEN it.status ELSE "sem_exec",
     ultimo_job |-> IF it.ultimo_job \in {NoneVal, ""} THEN "-" ELSE it.ultimo_job,
     termino_real |-> IF it.termino_real \in {NoneVal, ""} THEN "-" ELSE it.termino_real,
     fim_de_jogo |-> it.fim_de_jogo = "true",
     nota |-> IF it.nota = None THEN <<>> ELSE Strip(it.nota)]

ClaimDefault(id) ==
    [id |-> id, status |-> "sem_exec", ultimo_job |-> "-", termino_real |-> "-",
     fim_de_jogo |-> FALSE, nota |-> <<>>]

\* the saved record of a catalog id
SavedRecord(id) == SavedItens[ItensIndex(SavedItens, id)]

Rows == report_rows(data, dia)

\* the category of the section a line of the report is in
SectionOf(lines, i) ==
    lines[MaxOf({j \in 1..i : lines[j].kind = "section"})].text

\* the lines of the report that are in the section of cat, without the
\* section's own line and the empty line that closes it
SectionBody(lines, cat) ==
    LET inside == {i \in 1..Len(lines) :
                      /\ \E j \in 1..i : lines[j].kind = "section"
                      /\ SectionOf(lines, i) = cat
                      /\ lines[i].kind # "section"
                      /\ lines[i] # TextLine("")
                      /\ \E j \in (i + 1)..Len(lines) : lines[j] = TextLine("")}
    IN  SelectSeq([i \in 1..Len(lines) |-> IF i \in inside THEN <<lines[i]>> ELSE <<>>],
                  LAMBDA x : x # <<>>)

\* the lines C7 describes for the rows of one category, in the order of the rows
ClaimLines(rows, cat) ==
    LET mine == SelectSeq(rows, LAMBDA r : r.cat = cat)
    IN  [i \in 1..Len(mine) |->
            <<[kind |-> "item", text |-> "", emoji |-> EmojiOf(mine[i].st),
               nome |-> mine[i].nome, obs |-> mine[i].obs, date |-> <<>>]>>]

\* every record of the day is the record of a catalog operation
RowsOfOperations ==
    \A k \in 1..Len(data.dias[dia].itens) :
       HasId(data.catalogo_malhas, data.dias[dia].itens[k].id)

\* C7: for the rows of a day, each resolved to its operation's category,
\* inside or outside the fixed list, the report built at the end of the
\* interactive run has one section per fixed category in the fixed order, a
\* section without rows shows exactly the placeholder line, and every row
\* is exactly one line, in the section of its category, in the order of the
\* rows.
C7_ReportSections ==
    (path = "interactive" /\ pc \in {"done", "crashed_report"} /\ RowsOfOperations) =>
        LET lines == report.lines
            heads == SelectSeq(lines, LAMBDA l : l.kind = "section")
        IN  /\ report.error = ""
            /\ [i \in 1..Len(heads) |-> heads[i].text] = ORDEM_CATEGORIAS
            /\ \A i \in 1..Len(ORDEM_CATEGORIAS) :
                  LET cat == ORDEM_CATEGORIAS[i]
                  IN  SectionBody(lines, cat) =
                         IF ClaimLines(Rows, cat) = <<>>
                         THEN << <<TextLine("- (sem itens)")>> >>
                         ELSE ClaimLines(Rows, cat)
            /\ Cardinality({i \in 1..Len(lines) : lines[i].kind = "item"}) = Len(Rows)

\* C7 for rows of the fixed categories only
ReportSectionsOfKnownCategories ==
    (path = "interactive" /\ pc \in {"done", "crashed_report"}
       /\ \A i \in 1..Len(Rows) : Rows[i].cat \in Range(ORDEM_CATEGORIAS)) =>
        C7_ReportSections

\* C8: normalising a name twice gives what normalising it once gives.
C8_NormIdempotent ==
    pc = "normalised" => twice = once

\* a raw name with a tab and lower case whose EN DASH was replaced by the
\* hyphen
C8_Witness ==
    /\ pc = "normalised"
    /\ \E i \in 1..Len(raw) : raw[i] = 9
    /\ \E i \in 1..Len(raw) : raw[i] \in 97..122
    /\ \E i \in 1..Len(raw) : raw[i] = 8211
    /\ once = TH3_Hyphen

\* nothing but Enter was typed at the three prompts
KeepAnswer(a) == a.status = "0" /\ a.yesno = "" /\ Strip(a.obs) = <<>>

\* C9: one turn of the interactive loop, for an operation that has a record
\* in the day: ultimo_job and termino_real stay, the status stays or becomes
\* one of the 7 menu codes, and the whole record stays when "0", a blank
\* yes/no and a blank note are answered.
C9_KeepCurrent ==
    [][(path = "interactive" /\ pc = "loop" /\ idx' = idx + 1) =>
          LET its == data.dias[dia].itens
              its2 == data'.dias[dia].itens
              k == ItensIndex(its, catalogo_sorted[idx].id)
          IN  k # 0 =>
                 /\ its2[k].id = its[k].id
                 /\ its2[k].ultimo_job = its[k].ultimo_job
                 /\ its2[k].termino_real = its[k].termino_real
                 /\ its2[k].status = its[k].status \/ its2[k].status \in SevenCodes
                 /\ KeepAnswer(answer') => its2[k] = its[k]
      ]_vars

\* after a turn answered with Enter alone, the record of that operation,
\* which the store already held, still has its job, its end time and a note
C9_Witness ==
    /\ path = "interactive"
    /\ pc = "loop"
    /\ idx > 1
    /\ KeepAnswer(answer)
    /\ LET its == data.dias[dia].itens
           k == ItensIndex(its, catalogo_sorted[idx - 1].id)
       IN  /\ its[k].ultimo_job = "J9"
           /\ its[k].status = "ok"
           /\ its[k].fim_de_jogo
           /\ its[k].nota # <<>>

\* C10: a completed run for a date changes only the day record of that date:
\* the saved catalog and every other day are the loaded ones, no date is
\* removed, and on the update-payload path the new day record is made of
\* the catalog and the payload alone.
C10_OnlyTargetDayChanges ==
    Saved =>
        LET new == fs[MALHAS_JSON].doc
            old == store0.doc
        IN  /\ new.catalogo_malhas = old.catalogo_malhas
            /\ DOMAIN new.dias = DOMAIN old.dias \cup {dia}
            /\ \A d \in DOMAIN old.dias \ {dia} : new.dias[d] = old.dias[d]
            /\ path = "update" =>
                  new.dias[dia] =
                     [updatedAt |-> IF updateFile.payload.updatedAt \in {NoneVal, ""}
                                    THEN Now ELSE updateFile.payload.updatedAt,
                      itens |-> itens_final(old.catalogo_malhas, PayloadItens)]

\* a saved update of a date whose day record held other records, in a store
\* that holds another day
C10_Witness ==
    /\ path = "update"
    /\ Saved
    /\ dia \in DOMAIN store0.doc.dias
    /\ store0.doc.dias[dia].itens # <<>>
    /\ fs[MALHAS_JSON].doc.dias[dia].itens # store0.doc.dias[dia].itens
    /\ DOMAIN store0.doc.dias \ {dia} # {}

====
